---- MODULE Spec2Model ----
(***************************************************************************)
(* Model of VescWheelController (vesc_hw_interface/src/                    *)
(* vesc_wheel_controller.cpp): the counter time-derivative estimator       *)
(* counterTD, the PID step control, the timer callback and the sensor      *)
(* ingestion.                                                              *)
(*                                                                         *)
(* Reals (C++ double) are held as fixed-point integers:                    *)
(*   velocities      in 1/VelScale   rad/s                                 *)
(*   pulse positions in 1/PulseScale counts (target_pulse_, error_, ...)   *)
(*   duty            in 1/DutyScale                                        *)
(*   gains           in 1/GainScale                                        *)
(*   angles          in 1/VelScale   rad                                   *)
(* The value returned by counterTD is kept exact, as a fraction <<n, d>>.  *)
(***************************************************************************)
EXTENDS Integers, Sequences, FiniteSets, TLC

VARIABLES
  \* configuration read by init, and the build's double -> uint16_t conversion
  duty_limiter_, antiwindup_, i_clamp_, fp_conv,
  \* controller fields
  reset_, position_sens_, velocity_reference_, position_pulse_,
  prev_position_pulse_, velocity_sens_, effort_sens_,
  target_pulse_, error_, error_dt_, error_integ_, error_integ_prev_,
  \* estimator fields
  counter_changed_single_, counter_changed_log_, counter_td_tmp_, past_end_,
  \* actuation sink: argument of the last setDutyCycle, number of requestState
  sink_duty, sink_requests,
  \* parameters and locals of the last control call and of the last tick
  last_control, last_tick, ticks,
  \* direct calls of counterTD (estimator specification)
  td_last, td_calls, shadow, shadow_out,
  \* what a run of calls holding the count has shown (stall specification)
  stall,
  \* the sink pointer and the timer as init leaves them, the owning process
  interface_ptr_, control_timer_, process

cfgVars == <<duty_limiter_, antiwindup_, i_clamp_, fp_conv>>
nodeVars == <<interface_ptr_, control_timer_, process>>
ctlVars == <<target_pulse_, error_, error_dt_, error_integ_, error_integ_prev_,
             velocity_sens_>>
senVars == <<position_pulse_, prev_position_pulse_, effort_sens_>>
estVars == <<counter_changed_single_, counter_changed_log_, counter_td_tmp_,
             past_end_>>
sinkVars == <<sink_duty, sink_requests>>
tdVars == <<td_last, td_calls, shadow, shadow_out, stall>>
vars == <<cfgVars, nodeVars, ctlVars, senVars, estVars, sinkVars, tdVars,
          reset_,
          position_sens_, velocity_reference_, last_control,
          last_tick, ticks>>

----------------------------------------------------------------------------
(* Fixed-point scales *)
VelScale == 10^5
PulseScale == 10^3
DutyScale == 10^6
GainScale == 10^4

(* Program constants *)
M_PI == 314159                  \* pi, in 1/VelScale
kp_ == 50                       \* 0.005
ki_ == 50                       \* 0.005
kd_ == 25                       \* 0.0025
control_rate_ == 50
num_motor_pole_pairs_ == 7
gear_ratio_ == 2
torque_const_ == 4
VelEps == 10                    \* 0.0001 rad/s
HistDepth == 10
DwellInit == 100
DwellCap == 100
SanityLimit == 100
Uint16Bits == 16

(* Bounds of the model *)
LongBits == 11                  \* modelled width of long
MaxTicks == 3                   \* control ticks explored
MaxCalls == 5                   \* direct counterTD calls explored
MaxStall == 101                 \* consecutive calls holding the count
MaxChanges == 2                 \* changes of the count in a stalled run

----------------------------------------------------------------------------
(* Arithmetic helpers *)
Abs(x) == IF x < 0 THEN -x ELSE x
Sign(x) == IF x < 0 THEN -1 ELSE IF x > 0 THEN 1 ELSE 0

RECURSIVE GCD(_, _)
GCD(a, b) == IF b = 0 THEN a ELSE GCD(b, a % b)

\* x * a / b for x >= 0, a >= 0, b > 0 without leaving 32 bits
MulDivPos(x, a, b) == (x \div b) * a + ((x % b) * a) \div b

\* x * a / b, a >= 0, b > 0, truncated toward zero
MulDiv(x, a, b) ==
  LET g == GCD(a, b)
  IN  Sign(x) * MulDivPos(Abs(x), a \div g, b \div g)

\* fractions <<n, d>>, d > 0
Zero == <<0, 1>>
FracAbsGt(f, k) == Abs(f[1]) > k * f[2]
FracEq(f, g) == f[1] * g[2] = g[1] * f[2]
FracAbsEq(f, g) == Abs(f[1]) * g[2] = Abs(g[1]) * f[2]

----------------------------------------------------------------------------
(* counterTD *)
Slots == 0 .. (HistDepth - 1)
Uint16Mod == 2^Uint16Bits

\* static_cast<uint16_t>(count_in): exact for 0..65535; outside that range
\* the conversion is undefined, and a build either converts through a signed
\* 32-bit integer and keeps the low 16 bits, or converts with unsigned
\* saturation (negative -> 0) and keeps the low 16 bits.
ToU16(mode, count_in) ==
  IF count_in \in 0 .. (Uint16Mod - 1) THEN count_in
  ELSE IF mode = "unsigned" /\ count_in < 0 THEN 0
  ELSE count_in % Uint16Mod

Estimator == [single |-> counter_changed_single_, log |-> counter_changed_log_,
              tmp |-> counter_td_tmp_, oob |-> past_end_]

\* mutant of TDReset: only slot 0 of the histories is re-initialised
TDResetFirstSlot(e, count_in, mode) ==
  [single |-> 1,
   log |-> [e.log EXCEPT ![0] = <<ToU16(mode, count_in), DwellInit>>],
   tmp |-> [e.tmp EXCEPT ![0] = Zero],
   oob |-> e.oob]

\* lines 140-150
TDReset(e, count_in, mode) ==
  [single |-> 1,
   log |-> [i \in Slots |-> <<ToU16(mode, count_in), DwellInit>>],
   tmp |-> [i \in Slots |-> Zero],
   oob |-> e.oob]

\* lines 154-157: counter_changed_log_[10 - i][0] = counter_changed_log_[9 - i][0]
\* for i = 0..9. The first iteration stores slot 9's count one element past
\* the array (kept in oob); the dwell column is not shifted.
TDShiftLog(e) ==
  [e EXCEPT !.oob = e.log[HistDepth - 1][1],
            !.log = [i \in Slots |->
                       IF i = 0 THEN e.log[0]
                       ELSE <<e.log[i - 1][1], e.log[i][2]>>]]

\* mutant of TDUpdate: the since-last-change counter is not capped
TDUpdateNoCap(e, count_in, mode) ==
  IF e.log[0][1] # ToU16(mode, count_in)
  THEN LET s == TDShiftLog(e)
       IN  [s EXCEPT !.log[0] = <<ToU16(mode, count_in), e.single>>,
                     !.single = 1]
  ELSE LET d == IF e.single > e.log[0][2] THEN e.single ELSE e.log[0][2]
       IN  [e EXCEPT !.log[0] = <<e.log[0][1], d>>,
                     !.single = e.single + 1]

\* mutant of TDUpdate: the dwell of slot 0 does not grow while the count holds
TDUpdateDwellKept(e, count_in, mode) ==
  IF e.log[0][1] # ToU16(mode, count_in)
  THEN LET s == TDShiftLog(e)
       IN  [s EXCEPT !.log[0] = <<ToU16(mode, count_in), e.single>>,
                     !.single = 1]
  ELSE [e EXCEPT !.single = IF e.single < DwellCap THEN e.single + 1
                            ELSE e.single]

\* lines 152-172
TDUpdate(e, count_in, mode) ==
  IF e.log[0][1] # ToU16(mode, count_in)
  THEN LET s == TDShiftLog(e)
       IN  [s EXCEPT !.log[0] = <<ToU16(mode, count_in), e.single>>,
                     !.single = 1]
  ELSE LET d == IF e.single > e.log[0][2] THEN e.single ELSE e.log[0][2]
       IN  [e EXCEPT !.log[0] = <<e.log[0][1], d>>,
                     !.single = IF e.single < DwellCap THEN e.single + 1
                                ELSE e.single]

\* line 178: the uint16_t operands are promoted to int before the subtraction
TDDiff(e) == e.log[0][1] - e.log[1][1]

\* lines 174-179
TDDerive(e) ==
  [e EXCEPT !.tmp = [i \in Slots |->
                       IF i = 0 THEN <<TDDiff(e), e.log[0][2]>>
                       ELSE e.tmp[i - 1]]]

\* lines 180-185
TDOutput(e) == IF FracAbsGt(e.tmp[0], SanityLimit) THEN Zero ELSE e.tmp[0]

\* double counterTD(count_in, reset): the new estimator state and the result
counterTD(e, count_in, reset, mode) ==
  IF reset
  THEN [est |-> TDReset(e, count_in, mode), out |-> Zero]
  ELSE LET n == TDDerive(TDUpdate(e, count_in, mode))
       IN  [est |-> n, out |-> TDOutput(n)]

----------------------------------------------------------------------------
(* Initial states *)

\* configurations <<duty_limiter_, antiwindup_, i_clamp_>>: the defaults of
\* init (lines 37-39: 1.0, true, 0.2), and a low duty limiter (0.03) and
\* integral clamp (0.001) with and without anti-windup
DefaultConfig == <<DutyScale, TRUE, 2 * (DutyScale \div 10)>>
Configs == { DefaultConfig,
             <<3 * (DutyScale \div 100), TRUE, DutyScale \div 1000>>,
             <<3 * (DutyScale \div 100), FALSE, DutyScale \div 1000>> }
ConvModes == {"signed", "unsigned"}

\* The estimator arrays are not written before the first reset: their
\* content is whatever the memory holds.
Garbage ==
  { [single |-> 0, log |-> [i \in Slots |-> <<0, 0>>],
     tmp |-> [i \in Slots |-> Zero], oob |-> -1],
    [single |-> 513, log |-> [i \in Slots |-> <<4660 + i, 3>>],
     tmp |-> [i \in Slots |-> <<7, 3>>], oob |-> -1] }

NoControl == [target_velocity |-> 0, current_pulse |-> 0, reset |-> FALSE,
              integ_before |-> 0, raw_duty |-> 0, duty |-> 0,
              counterTD_calls |-> <<>>,
              target_advanced |-> 0, target_wrapped |-> 0]
NoTick == [n |-> 0, diff |-> 0, pulse |-> 0, pulse_before |-> 0,
           reset |-> FALSE, position_before |-> 0]
NoTD == [call |-> "none", count_in |-> 0, out |-> Zero, run |-> 0,
         prev_call |-> "none", prev_in |-> 0, prev_run |-> 0,
         in_range |-> TRUE]
NoStall == [held |-> 0, delta |-> 0, changes |-> 0,
            change_out |-> Zero, prev_out |-> Zero]

\* lines 25-32 and 53 with a sink: the pointer is stored, the timer created
InitSink ==
  /\ interface_ptr_ = "sink"
  /\ process = "running"
  /\ control_timer_ = TRUE

\* lines 25-32 and 53 with interface_ptr == NULL
InitNoSink ==
  /\ interface_ptr_ = "unassigned"
  /\ process = "shutdown_requested"
  /\ control_timer_ = TRUE

\* the fields as init (lines 45-51) leaves them
InitFields ==
  /\ reset_ = TRUE
  /\ position_sens_ = 0
  /\ velocity_reference_ = 0
  /\ position_pulse_ = 0
  /\ prev_position_pulse_ = 0
  /\ velocity_sens_ = 0
  /\ effort_sens_ = 0
  \* not assigned by init and not read before the first control call
  /\ target_pulse_ = 0
  /\ error_ = 0
  /\ error_dt_ = 0
  /\ error_integ_ = 0
  /\ error_integ_prev_ = 0
  /\ \E g \in Garbage :
       /\ counter_changed_single_ = g.single
       /\ counter_changed_log_ = g.log
       /\ counter_td_tmp_ = g.tmp
       /\ past_end_ = g.oob
       /\ shadow = g
  /\ shadow_out = Zero
  /\ sink_duty = 0
  /\ sink_requests = 0
  /\ last_control = NoControl
  /\ last_tick = NoTick
  /\ ticks = 0
  /\ td_last = NoTD
  /\ td_calls = 0
  /\ stall = NoStall

\* Controller specification: every pulse count it feeds is in 0..65535, where
\* the conversion to uint16_t is defined and the builds agree.
Init ==
  /\ \E c \in Configs :
       duty_limiter_ = c[1] /\ antiwindup_ = c[2] /\ i_clamp_ = c[3]
  /\ fp_conv = "signed"
  /\ InitSink
  /\ InitFields

\* Estimator specification: the default configuration, either build
InitTD ==
  /\ duty_limiter_ = DefaultConfig[1]
  /\ antiwindup_ = DefaultConfig[2]
  /\ i_clamp_ = DefaultConfig[3]
  /\ fp_conv \in ConvModes
  /\ InitSink
  /\ InitFields

\* init called with a null sink: ros::shutdown() is called, interface_ptr_
\* is not assigned, and init goes on to set the fields and create the timer
InitNull ==
  /\ duty_limiter_ = DefaultConfig[1]
  /\ antiwindup_ = DefaultConfig[2]
  /\ i_clamp_ = DefaultConfig[3]
  /\ fp_conv = "signed"
  /\ InitNoSink
  /\ InitFields

----------------------------------------------------------------------------
(* Estimator specification: counterTD called directly.  A second estimator  *)
(* (shadow) is fed the same counts moved half a turn of the 16-bit counter   *)
(* away, so that a run crossing 65535 -> 0 has an equivalent run that does   *)
(* not wrap.                                                                 *)

TDCounts == {-1, 0, 1, Uint16Mod - 1, Uint16Mod}
ShiftAway(count_in) == (count_in + Uint16Mod \div 2) % Uint16Mod
InRange(count_in) == count_in \in 0 .. (Uint16Mod - 1)

\* one call of counterTD on the estimator and on its shadow, and its record
RecordCounterTD(count_in, reset) ==
  /\ reset \/ td_last.call # "none"
  /\ LET r == counterTD(Estimator, count_in, reset, fp_conv)
         q == counterTD(shadow, ShiftAway(count_in), reset, fp_conv)
         same == ~reset /\ count_in = td_last.count_in
     IN  /\ counter_changed_single_' = r.est.single
         /\ counter_changed_log_' = r.est.log
         /\ counter_td_tmp_' = r.est.tmp
         /\ past_end_' = r.est.oob
         /\ shadow' = q.est
         /\ shadow_out' = q.out
         /\ td_last' = [call |-> IF reset THEN "reset" ELSE "step",
                        count_in |-> count_in,
                        out |-> r.out,
                        run |-> IF same
                                THEN (IF td_last.run < DwellCap
                                      THEN td_last.run + 1 ELSE td_last.run)
                                ELSE 1,
                        prev_call |-> td_last.call,
                        prev_in |-> td_last.count_in,
                        prev_run |-> td_last.run,
                        in_range |-> InRange(count_in) /\
                                     (reset \/ td_last.in_range)]
  /\ UNCHANGED <<cfgVars, nodeVars, ctlVars, senVars, sinkVars, reset_,
                 position_sens_, velocity_reference_, last_control,
                 last_tick, ticks>>

CallCounterTD(count_in, reset) ==
  /\ td_calls < MaxCalls
  /\ RecordCounterTD(count_in, reset)
  /\ td_calls' = td_calls + 1
  /\ UNCHANGED stall

TDResetCall == \E c \in TDCounts : CallCounterTD(c, TRUE)
TDStepCall == \E c \in TDCounts : CallCounterTD(c, FALSE)

NextTD == TDResetCall \/ TDStepCall
SpecTD == InitTD /\ [][NextTD]_vars

----------------------------------------------------------------------------
(* Stall specification: counterTD called directly with counts that hold for *)
(* long runs, long enough for the since-last-change counter to reach its    *)
(* cap, with few changes between.                                           *)

InitStall ==
  /\ duty_limiter_ = DefaultConfig[1]
  /\ antiwindup_ = DefaultConfig[2]
  /\ i_clamp_ = DefaultConfig[3]
  /\ fp_conv = "signed"
  /\ InitSink
  /\ InitFields

StallCounts == {0, 3, 1000}
\* the numbers of holding calls after which the count may change
HoldsBeforeChange == {0, 1, 9, 10, MaxStall}

\* the value a call returned, as the caller sees it
Returned(count_in, reset) == counterTD(Estimator, count_in, reset, fp_conv).out

StallReset ==
  \E c \in StallCounts :
    /\ RecordCounterTD(c, TRUE)
    /\ stall' = [stall EXCEPT !.held = 0, !.delta = 0, !.change_out = Zero,
                              !.prev_out = td_last.out]
    /\ UNCHANGED td_calls

StallHold ==
  /\ stall.held < MaxStall
  /\ RecordCounterTD(td_last.count_in, FALSE)
  /\ stall' = [stall EXCEPT !.held = stall.held + 1,
                            !.prev_out = td_last.out]
  /\ UNCHANGED td_calls

StallChange ==
  /\ stall.changes < MaxChanges
  /\ stall.held \in HoldsBeforeChange
  /\ \E c \in StallCounts \ {td_last.count_in} :
       /\ RecordCounterTD(c, FALSE)
       /\ stall' = [held |-> 0,
                    delta |-> c - td_last.count_in,
                    changes |-> stall.changes + 1,
                    change_out |-> Returned(c, FALSE),
                    prev_out |-> td_last.out]
  /\ UNCHANGED td_calls

NextStall == StallReset \/ StallHold \/ StallChange
SpecStall == InitStall /\ [][NextStall]_vars

----------------------------------------------------------------------------
(* control *)

\* long is modelled LongBits wide. static_cast<double>(LONG_MAX) is not
\* representable and rounds up to the next power of two, -LONG_MIN.
LONG_MAX == 2^(LongBits - 1) - 1
LONG_MIN == -(2^(LongBits - 1))
LongMaxAsDouble == (LONG_MAX + 1) * PulseScale
LongMinAsDouble == LONG_MIN * PulseScale

\* gain * x as a duty, x in 1/scale
Term(gain, x, scale) == MulDiv(x, gain * DutyScale, GainScale * scale)

\* line 72: target_velocity * motor_hall_ppr / (2 * M_PI) / control_rate_
AdvanceTarget(tp, target_velocity) ==
  tp + MulDiv(target_velocity, num_motor_pole_pairs_ * PulseScale,
              2 * M_PI * control_rate_)

\* lines 75-83
OverflowCheck(tp) ==
  IF tp > LongMaxAsDouble THEN tp + LongMinAsDouble
  ELSE IF tp < LongMinAsDouble THEN tp + LongMaxAsDouble
  ELSE tp

\* lines 85-93, count_deviation_limit = num_motor_pole_pairs_
LimitErrorOff(tp, current_pulse) == tp
LimitError(tp, current_pulse) ==
  LET cp == current_pulse * PulseScale
      lim == num_motor_pole_pairs_ * PulseScale
  IN  IF tp - cp > lim THEN cp + lim
      ELSE IF tp - cp < -lim THEN cp - lim
      ELSE tp

\* line 96: counterTD(...) * 2.0 * M_PI / motor_hall_ppr * control_rate_
VelocityFromTD(out) ==
  Sign(out[1]) * MulDivPos(2 * M_PI * control_rate_, Abs(out[1]),
                           num_motor_pole_pairs_ * out[2])

\* line 100: error_ / control_rate_
IntegStep(error) == MulDiv(error, 1, control_rate_)

\* mutant of RawDuty: the velocity-error term is left out
RawDutyNoVelocityTerm(error, integ, error_dt) ==
  Term(kp_, error, PulseScale) + Term(ki_, integ, PulseScale)

\* lines 101, 111, 120
RawDuty(error, integ, error_dt) ==
  Term(kp_, error, PulseScale) + Term(ki_, integ, PulseScale)
    + Term(kd_, error_dt, VelScale)

\* lines 125, 129: i_clamp_ / ki_
IntegLimit == MulDiv(i_clamp_, GainScale * PulseScale, ki_ * DutyScale)

\* mutant of RollBack: the output is limited, the integral keeps growing
RollBackDutyOnly(p) ==
  IF p.duty > duty_limiter_ THEN [p EXCEPT !.duty = duty_limiter_]
  ELSE IF p.duty < -duty_limiter_ THEN [p EXCEPT !.duty = -duty_limiter_]
  ELSE p

\* lines 105-122: the roll-back of the integral on a saturated output
RollBack(p) ==
  IF p.duty > duty_limiter_
  THEN IF p.integ > p.integ_prev
       THEN [p EXCEPT !.integ = p.integ_prev,
                      !.duty = RawDuty(p.error, p.integ_prev, p.error_dt)]
       ELSE [p EXCEPT !.duty = duty_limiter_]
  ELSE IF p.duty < -duty_limiter_
  THEN IF p.integ < p.integ_prev
       THEN [p EXCEPT !.integ = p.integ_prev,
                      !.duty = RawDuty(p.error, p.integ_prev, p.error_dt)]
       ELSE [p EXCEPT !.duty = -duty_limiter_]
  ELSE p

\* lines 123-130
ClampIntegOff(p) == p
ClampInteg(p) ==
  IF Term(ki_, p.integ, PulseScale) > i_clamp_
  THEN [p EXCEPT !.integ = IntegLimit]
  ELSE IF Term(ki_, p.integ, PulseScale) < -i_clamp_
  THEN [p EXCEPT !.integ = -IntegLimit]
  ELSE p

\* lines 103-131
AntiWindup(p) == IF antiwindup_ THEN ClampInteg(RollBack(p)) ELSE p

\* mutant of ClampDuty: no final clamp
ClampDutyOff(duty) == duty

\* line 134: std::clamp(duty, -duty_limiter_, duty_limiter_)
ClampDuty(duty) ==
  IF duty < -duty_limiter_ THEN -duty_limiter_
  ELSE IF duty > duty_limiter_ THEN duty_limiter_
  ELSE duty

\* mutant of DeadBand: the computed duty is always emitted
DeadBandOff(target_velocity, duty) == duty

\* line 135: fabs(target_velocity) < 0.0001 ? 0.0 : duty
DeadBand(target_velocity, duty) ==
  IF Abs(target_velocity) < VelEps THEN 0 ELSE duty

\* a call of counterTD from control: the estimator, the result, the calls made
CallTD(s, count_in, reset) ==
  LET r == counterTD(s.est, count_in, reset, fp_conv)
  IN  [est |-> r.est, out |-> r.out, calls |-> Append(s.calls, reset)]

\* mutant of ResetEstimator: the reset branch calls counterTD without the
\* reset flag
ResetEstimatorNoFlag(s, current_pulse) == CallTD(s, current_pulse, FALSE)

\* line 68
ResetEstimator(s, current_pulse) == CallTD(s, current_pulse, TRUE)

\* line 96
Estimate(s, current_pulse) == CallTD(s, current_pulse, FALSE)

\* lines 61-73: the target before the overflow check
SyncOrAdvance(target_velocity, current_pulse, reset) ==
  IF reset THEN current_pulse * PulseScale
  ELSE AdvanceTarget(target_pulse_, target_velocity)

\* void control(target_velocity, current_pulse, reset)
control(target_velocity, current_pulse, reset) ==
  LET s0 == [est |-> Estimator, out |-> Zero, calls |-> <<>>]
      s1 == IF reset THEN ResetEstimator(s0, current_pulse) ELSE s0
      integ0 == IF reset THEN 0 ELSE error_integ_
      advanced == SyncOrAdvance(target_velocity, current_pulse, reset)
      wrapped == OverflowCheck(advanced)
      tp == LimitError(wrapped, current_pulse)
      s2 == Estimate(s1, current_pulse)
      vs == VelocityFromTD(s2.out)
      edt == target_velocity - vs
      err == tp - current_pulse * PulseScale
      integ1 == integ0 + IntegStep(err)
      raw == RawDuty(err, integ1, edt)
      p == AntiWindup([duty |-> raw, integ |-> integ1, integ_prev |-> integ0,
                       error |-> err, error_dt |-> edt])
      duty == DeadBand(target_velocity, ClampDuty(p.duty))
  IN  /\ target_pulse_' = tp
      /\ velocity_sens_' = vs
      /\ error_dt_' = edt
      /\ error_' = err
      /\ error_integ_prev_' = integ0
      /\ error_integ_' = p.integ
      /\ counter_changed_single_' = s2.est.single
      /\ counter_changed_log_' = s2.est.log
      /\ counter_td_tmp_' = s2.est.tmp
      /\ past_end_' = s2.est.oob
      /\ sink_duty' = duty
      /\ last_control' = [target_velocity |-> target_velocity,
                          current_pulse |-> current_pulse,
                          reset |-> reset,
                          integ_before |-> error_integ_,
                          raw_duty |-> raw,
                          duty |-> p.duty,
                          counterTD_calls |-> s2.calls,
                          target_advanced |-> advanced,
                          target_wrapped |-> wrapped]

----------------------------------------------------------------------------
(* Operations of the controller *)

Velocities == {0, 5, 10 * VelScale, 2000 * VelScale}
Pulses == {0, 1, 1000}
Packets == [name : {"Values", "FWVersion"}, current : {3}, position : Pulses]

\* void setTargetVelocity(velocity_reference)
setTargetVelocity(velocity_reference) ==
  /\ process # "terminated"
  /\ ticks < MaxTicks
  /\ velocity_reference_' = velocity_reference
  /\ UNCHANGED <<cfgVars, nodeVars, ctlVars, senVars, estVars, sinkVars,
                 tdVars, reset_, position_sens_, last_control, last_tick,
                 ticks>>

\* void updateSensor(packet)
updateSensorAnyKind(packet) ==
  /\ process # "terminated"
  /\ ticks < MaxTicks
  /\ prev_position_pulse_' = position_pulse_
  /\ position_pulse_' = packet.position
  /\ effort_sens_' = (packet.current * torque_const_) \div gear_ratio_
  /\ UNCHANGED <<cfgVars, nodeVars, ctlVars, estVars, sinkVars, tdVars,
                 reset_, position_sens_, velocity_reference_, last_control,
                 last_tick, ticks>>
updateSensor(packet) ==
  /\ process # "terminated"
  /\ ticks < MaxTicks
  /\ IF packet.name = "Values"
     THEN /\ prev_position_pulse_' = position_pulse_
          /\ position_pulse_' = packet.position
          /\ effort_sens_' = (packet.current * torque_const_) \div gear_ratio_
     ELSE UNCHANGED senVars
  /\ UNCHANGED <<cfgVars, nodeVars, ctlVars, estVars, sinkVars, tdVars,
                 reset_, position_sens_, velocity_reference_, last_control,
                 last_tick, ticks>>

\* line 228
PulseDiff == position_pulse_ - prev_position_pulse_

\* line 229: fabs(diff) > num_motor_pole_pairs_ / 4
DiscontinuityNever(diff) == FALSE
Discontinuity(diff) == 4 * Abs(diff) > num_motor_pole_pairs_

\* line 234: diff / num_motor_pole_pairs_ * 2.0 * M_PI
PositionStep(diff) == MulDiv(diff, 2 * M_PI, num_motor_pole_pairs_)

\* line 238
AtRestNever(velocity_reference) == FALSE
AtRest(velocity_reference) == Abs(velocity_reference) < VelEps

\* void controlTimerCallback(e), fired by control_timer_.  With
\* interface_ptr_ unassigned the calls of lines 135 and 236 go through a
\* pointer without a value: either they are made all the same (this action)
\* or the first of them ends the process (controlTimerCallbackFault).
controlTimerCallback ==
  /\ control_timer_
  /\ process # "terminated"
  /\ ticks < MaxTicks
  /\ LET diff == PulseDiff
         jump == Discontinuity(diff)
         reset == reset_ \/ jump
     IN  /\ position_sens_' =
              position_sens_ + PositionStep(IF jump THEN 0 ELSE diff)
         /\ control(velocity_reference_, position_pulse_, reset)
         /\ last_tick' = [n |-> ticks + 1, diff |-> diff,
                          pulse |-> position_pulse_,
                          pulse_before |-> last_tick.pulse,
                          reset |-> reset,
                          position_before |-> position_sens_]
  /\ sink_requests' = sink_requests + 1
  /\ reset_' = AtRest(velocity_reference_)
  /\ ticks' = ticks + 1
  /\ UNCHANGED <<cfgVars, nodeVars, senVars, tdVars, velocity_reference_>>

\* the callback with interface_ptr_ unassigned, ending at line 135
controlTimerCallbackFault ==
  /\ control_timer_
  /\ process # "terminated"
  /\ ticks < MaxTicks
  /\ interface_ptr_ # "sink"
  /\ process' = "terminated"
  /\ UNCHANGED <<cfgVars, interface_ptr_, control_timer_, ctlVars, senVars,
                 estVars, sinkVars, tdVars, reset_, position_sens_,
                 velocity_reference_, last_control, last_tick, ticks>>

SetTargetVelocity == \E v \in Velocities : setTargetVelocity(v)
UpdateSensor == \E packet \in Packets : updateSensor(packet)

Next == SetTargetVelocity \/ UpdateSensor \/ controlTimerCallback
Spec == Init /\ [][Next]_vars

\* The controller after init with a null sink
NextNull ==
  \/ SetTargetVelocity
  \/ UpdateSensor
  \/ controlTimerCallback
  \/ controlTimerCallbackFault
SpecNull == InitNull /\ [][NextNull]_vars

----------------------------------------------------------------------------
(* Properties of the estimator, under SpecTD *)

\* C1: counterTD(c, reset = true) returns 0 and leaves every changed-log
\* slot at (c converted to uint16_t, dwell 100), the derivative history all
\* zero and the since-last-change counter at 1; a following
\* counterTD(c, reset = false) with the same count returns 0.
C1_ResetIdempotence ==
  /\ td_last.call = "reset" =>
       /\ td_last.out[1] = 0
       /\ \A i \in Slots :
            /\ counter_changed_log_[i] =
                 <<ToU16(fp_conv, td_last.count_in), 100>>
            /\ counter_td_tmp_[i][1] = 0
       /\ counter_changed_single_ = 1
  /\ (td_last.call = "step" /\ td_last.prev_call = "reset"
        /\ td_last.count_in = td_last.prev_in) => td_last.out[1] = 0

\* C1 witness: a reset from a non-zero history, then the same count again
C1_Witness ==
  /\ td_last.call = "step"
  /\ td_last.prev_call = "reset"
  /\ td_last.count_in = td_last.prev_in
  /\ td_last.count_in = Uint16Mod - 1
  /\ td_last.out[1] = 0
  /\ counter_changed_single_ = 2

\* C2: a run of in-range counts that crosses the 16-bit boundary returns,
\* at each call, a value of the same magnitude as the same run moved away
\* from the boundary.
C2_WraparoundInvariance ==
  (td_last.call = "step" /\ td_last.in_range) =>
     FracAbsEq(td_last.out, shadow_out)

\* C3: a count seen constant for N calls that then changes by Delta makes
\* counterTD return Delta / N at the change, provided |Delta / N| <= 100.
C3_DwellDerivative ==
  LET delta == td_last.count_in - td_last.prev_in
      n == td_last.prev_run
  IN  (td_last.call = "step" /\ td_last.prev_call # "none" /\ delta # 0
         /\ Abs(delta) <= 100 * n) =>
        FracEq(td_last.out, <<delta, n>>)

----------------------------------------------------------------------------
(* Properties of the controller, under Spec *)

Scenario ==
  /\ <<duty_limiter_, antiwindup_, i_clamp_>> = DefaultConfig
  /\ ticks > 0
  /\ last_control.target_velocity = 10 * VelScale
  /\ last_control.current_pulse = 1000
  /\ last_control.reset

\* C4 as claimed: control(10 rad/s, 1000, reset = true) under the scenario
\* configuration passes 0 to setDutyCycle.
C4_ResetDutyZero == Scenario => sink_duty = 0

\* C4 amended: that call passes kd * targetVelocity = 0.025: the position
\* error and the integral are zero, the velocity-error term is not.
C4_ResetDutyIsVelocityTerm ==
  Scenario => sink_duty = 25 * (DutyScale \div 1000)

\* C4 witness: the scenario call has run, with zero error and integral
C4_Witness ==
  /\ Scenario
  /\ error_ = 0
  /\ error_integ_ = 0
  /\ target_pulse_ = 1000 * PulseScale

\* C5: whenever control runs with |targetVelocity| < 0.0001 the value passed
\* to setDutyCycle is 0.
C5_DeadBand ==
  (ticks > 0 /\ Abs(last_control.target_velocity) < VelEps) => sink_duty = 0

\* C5 witness: a non-reset call in the dead band whose PID output and
\* integral are not zero
C5_Witness ==
  /\ ticks > 0
  /\ last_control.target_velocity = 5
  /\ ~last_control.reset
  /\ last_control.duty # 0
  /\ error_integ_ # 0
  /\ sink_duty = 0

\* C6: the value passed to setDutyCycle is within [-dutyLimit, +dutyLimit].
C6_OutputBound ==
  ticks > 0 => (-duty_limiter_ <= sink_duty /\ sink_duty <= duty_limiter_)

\* C6 witness: the duty left by the anti-windup stage is above the limit and
\* the limit is what is emitted
C6_Witness ==
  /\ ticks > 0
  /\ last_control.duty > duty_limiter_
  /\ sink_duty = duty_limiter_

Saturated(sign) == sign * last_control.raw_duty > duty_limiter_
IntegGrew(sign) == sign * error_integ_ > sign * last_control.integ_before

\* C7 as claimed: with anti-windup, on every tick whose raw duty is beyond
\* the limit, errorIntegral after the tick has not moved in the saturating
\* direction from its value before the tick.
C7_NoGrowthWhenSaturated ==
  (ticks > 0 /\ antiwindup_) =>
     \A sign \in {-1, 1} : Saturated(sign) => ~IntegGrew(sign)

\* C7 amended: the same on every tick that runs with reset = false (a reset
\* tick zeroes the integral, which raises a negative one).
C7_NoGrowthWhenSaturatedNoReset ==
  (ticks > 0 /\ antiwindup_ /\ ~last_control.reset) =>
     \A sign \in {-1, 1} : Saturated(sign) => ~IntegGrew(sign)

\* C7 witness: a saturated non-reset tick with a positive error, whose
\* integral increment was rolled back
C7_Witness ==
  /\ ticks > 0
  /\ antiwindup_
  /\ ~last_control.reset
  /\ Saturated(1)
  /\ IntegStep(error_) > 0
  /\ error_integ_ = last_control.integ_before

RangeWidth == (LONG_MAX - LONG_MIN) * PulseScale

\* C8: a target above LONG_MAX is moved down by the full width of the
\* range, one below LONG_MIN is moved up by it, into [LONG_MIN, LONG_MAX].
C8_OverflowWrap ==
  LET a == last_control.target_advanced
      w == last_control.target_wrapped
  IN  ticks > 0 =>
        /\ a > LongMaxAsDouble =>
             (w = a - RangeWidth /\ w >= LongMinAsDouble)
        /\ a < LongMinAsDouble =>
             (w = a + RangeWidth /\ w <= LongMaxAsDouble)

C10_DeltaSincePreviousTick ==
  ticks > 0 => last_tick.diff = last_tick.pulse - last_tick.pulse_before

\* C11: whenever the timer callback sees a pulse delta of magnitude above
\* polePairs / 4, positionSens is left unchanged by that tick and the control
\* call of the tick runs with reset = true: targetPulse is the current pulse
\* count, error and errorIntegral are zero and the estimator history is
\* reset; the tick completes with its requestState.
C11_DiscontinuityReset ==
  (ticks > 0 /\ 4 * Abs(last_tick.diff) > num_motor_pole_pairs_) =>
     /\ position_sens_ = last_tick.position_before
     /\ last_control.reset
     /\ target_pulse_ = last_control.current_pulse * PulseScale
     /\ error_ = 0
     /\ error_integ_ = 0
     /\ \A i \in Slots :
          /\ counter_changed_log_[i] = <<last_control.current_pulse, 100>>
          /\ counter_td_tmp_[i][1] = 0
     /\ sink_requests = ticks

\* C11 witness: a discontinuity seen by a later tick, with an angle and an
\* integral accumulated before it
C11_Witness ==
  /\ ticks > 1
  /\ 4 * Abs(last_tick.diff) > num_motor_pole_pairs_
  /\ last_tick.position_before # 0
  /\ last_control.integ_before # 0
  /\ position_sens_ = last_tick.position_before
  /\ error_integ_ = 0

\* C12: the control call of a tick runs with reset = true exactly when the
\* tick is the first after init, or the velocity reference at the end of the
\* previous tick had magnitude below 0.0001, or a discontinuity is seen in
\* this tick; after every control call with reset = true targetPulse is the
\* current pulse count and error and errorIntegral are zero.
C12_ResetTrigger ==
  /\ [][ticks' = ticks + 1 =>
         (last_control'.reset <=>
            \/ ticks = 0
            \/ Abs(last_control.target_velocity) < VelEps
            \/ 4 * Abs(last_tick'.diff) > num_motor_pole_pairs_)]_vars
  /\ []((ticks > 0 /\ last_control.reset) =>
          /\ target_pulse_ = last_control.current_pulse * PulseScale
          /\ error_ = 0
          /\ error_integ_ = 0)

\* C12 witness: a later tick reset by the reference of the tick before it,
\* without a discontinuity, clearing an integral that was not zero
C12_Witness ==
  /\ ticks > 1
  /\ last_control.reset
  /\ 4 * Abs(last_tick.diff) <= num_motor_pole_pairs_
  /\ last_control.integ_before # 0
  /\ error_integ_ = 0

\* C15: after every control call the target is within polePairs counts of
\* the current pulse count, and so is the magnitude of error.
C15_ErrorBound ==
  ticks > 0 =>
    /\ Abs(target_pulse_ - last_control.current_pulse * PulseScale)
         <= num_motor_pole_pairs_ * PulseScale
    /\ Abs(error_) <= num_motor_pole_pairs_ * PulseScale

\* C15 witness: the advanced target was further away than polePairs and the
\* error is exactly the limit
C15_Witness ==
  /\ ticks > 0
  /\ Abs(last_control.target_wrapped
           - last_control.current_pulse * PulseScale)
       > num_motor_pole_pairs_ * PulseScale
  /\ Abs(error_) = num_motor_pole_pairs_ * PulseScale

\* C16 as claimed: at the end of every control tick |ki * errorIntegral| is
\* at most iClamp.
C16_IntegralClamp ==
  ticks > 0 => Abs(Term(ki_, error_integ_, PulseScale)) <= i_clamp_

\* C16 amended: the same at the end of every control tick of a controller
\* configured with anti-windup enabled (the clamp is part of the anti-windup
\* branch).
C16_IntegralClampWithAntiwindup ==
  (ticks > 0 /\ antiwindup_) =>
     Abs(Term(ki_, error_integ_, PulseScale)) <= i_clamp_

\* C16 witness: with anti-windup, an integral that its increment would have
\* taken beyond the limit is left at the limit
C16_Witness ==
  /\ ticks > 0
  /\ antiwindup_
  /\ ~last_control.reset
  /\ Abs(last_control.integ_before + IntegStep(error_)) > IntegLimit
  /\ Abs(error_integ_) = IntegLimit

\* C14: updateSensor with a packet of any kind other than "Values" leaves
\* the whole state unchanged; with a "Values" packet it changes only the
\* current pulse count (to the packet's), the previous pulse count (to the
\* old current one) and effortSens (current * torque constant / gear ratio).
C14_SensorFrame ==
  [][\A packet \in Packets :
       updateSensor(packet) =>
         IF packet.name = "Values"
         THEN /\ position_pulse_' = packet.position
              /\ prev_position_pulse_' = position_pulse_
              /\ effort_sens_' = (packet.current * torque_const_)
                                    \div gear_ratio_
              /\ UNCHANGED <<cfgVars, nodeVars, ctlVars, estVars, sinkVars,
                             tdVars, reset_, position_sens_,
                             velocity_reference_, last_control, last_tick,
                             ticks>>
         ELSE UNCHANGED vars]_vars

\* C14 witness: "Values" packets ingested after a tick: both pulse counts
\* and the effort are the packets', the controller state is the tick's
C14_Witness ==
  /\ ticks > 0
  /\ position_pulse_ = 1000
  /\ prev_position_pulse_ = 1
  /\ effort_sens_ = (3 * torque_const_) \div gear_ratio_
  /\ last_tick.pulse = 0
  /\ target_pulse_ # 0

\* C17: after every counterTD call without reset, slot 0 of the changed-log
\* holds the count just passed (as uint16_t); on a call where the count
\* changed, each older slot k+1 (k = 0..8) holds what slot k held before the
\* call, count and dwell; on a call where it did not change the stored
\* counts are unchanged.
C17_ChangedLogShift ==
  [][(td_calls' = td_calls + 1 /\ td_last'.call = "step") =>
       /\ counter_changed_log_'[0][1] = ToU16(fp_conv, td_last'.count_in)
       /\ IF counter_changed_log_'[0][1] # counter_changed_log_[0][1]
          THEN \A k \in 0 .. (HistDepth - 2) :
                 counter_changed_log_'[k + 1] = counter_changed_log_[k]
          ELSE \A k \in Slots :
                 counter_changed_log_'[k][1] = counter_changed_log_[k][1]]_vars

\* C19: counterTD reads and writes the 10-slot changed-log and derivative
\* history at indices 0..9 only: the element past slot 9 is never written.
C19_IndexInRange == past_end_ = -1

----------------------------------------------------------------------------
(* Properties of the estimator on long stalls, under SpecStall *)

\* C18: in every state after the first estimator reset the since-last-change
\* counter is within 1..100 and the dwell of slot 0 is within 1..100.
C18_DwellBounds ==
  td_last.call # "none" =>
    /\ counter_changed_single_ \in 1 .. 100
    /\ counter_changed_log_[0][2] \in 1 .. 100

\* C18 witness: after a change, the count has been held for more calls than
\* the cap; counter and dwell are at the cap
C18_Witness ==
  /\ td_last.call = "step"
  /\ stall.changes > 0
  /\ stall.held > DwellCap
  /\ counter_changed_single_ = 100
  /\ counter_changed_log_[0][2] = 100

\* a change by delta # 0 since the last reset, then calls holding the count
Stalled == td_last.call = "step" /\ stall.delta # 0 /\ stall.held >= 1

FracAbsLe(f, g) == Abs(f[1]) * g[2] <= Abs(g[1]) * f[2]

\* C20 as claimed: after the count changed by Delta # 0 and while it then
\* holds without a reset, the magnitude of the value returned does not
\* increase from call to call, is never 0, and from the 100th call on is
\* |Delta| / 100.
C20_StaleDecay ==
  Stalled =>
    /\ FracAbsLe(td_last.out, stall.prev_out)
    /\ td_last.out[1] # 0
    /\ stall.held >= DwellCap => FracAbsEq(td_last.out, <<stall.delta, 100>>)

\* C20 amended: the same provided the value returned at the change call was
\* not 0, that is |Delta| / N <= 100 and the sanity limit did not suppress it.
C20_StaleDecayUnsuppressed ==
  (Stalled /\ stall.change_out[1] # 0) =>
    /\ FracAbsLe(td_last.out, stall.prev_out)
    /\ td_last.out[1] # 0
    /\ stall.held >= DwellCap => FracAbsEq(td_last.out, <<stall.delta, 100>>)

\* C20 witness: a change whose value was returned, decayed to |Delta| / 100
\* after 100 calls holding the count
C20_Witness ==
  /\ Stalled
  /\ stall.change_out[1] # 0
  /\ stall.held >= DwellCap
  /\ FracAbsEq(td_last.out, <<stall.delta, 100>>)
  /\ ~FracAbsLe(stall.change_out, td_last.out)

----------------------------------------------------------------------------
(* Property of init with a null sink, under SpecNull *)

\* C13: after init with an absent sink, shutdown of the owning process has
\* been requested, no control timer is registered, and no control tick calls
\* setDutyCycle or requestState on the absent sink.
C13_NoControlWithoutSink ==
  interface_ptr_ # "sink" =>
    /\ process # "running"
    /\ ~control_timer_
    /\ ticks = 0
    /\ sink_requests = 0
    /\ last_control = NoControl

====
